---- MODULE Spec2Model ----
(***************************************************************************)
(* EasyTL: one call shape (translate / translate_async) over six           *)
(* translation backends.  The model follows src/src/easytl/easytl.py (the  *)
(* EasyTL class: gates, settings override, dispatch, normalisation) and    *)
(* src/src/easytl/gemini_service.py (the service layer: settings record,   *)
(* client/semaphore rebuild, the per-unit request).  The service classes   *)
(* of the other five backends are not part of the sources; easytl.py calls *)
(* the same methods on each of them, so the service layer of every backend *)
(* is modelled on GeminiService.                                           *)
(*                                                                         *)
(* Scheduling: asyncio is single-threaded and cooperative.  Every action   *)
(* below is one run of code between two suspension points.  A serial       *)
(* (non-async) call blocks the thread from its first line to its return;   *)
(* it is split at the backend request only so that the request in flight   *)
(* is visible, and nothing else runs while it is under way (Idle).         *)
(***************************************************************************)
EXTENDS Naturals, Sequences, FiniteSets, TLC

\* ------------------------------------------------------------------ bounds
MaxCalls == 3      \* API calls made in one behaviour
MaxLen == 2        \* longest iterable passed as text

\* ------------------------------------------------------------ plain values
None == "None"
NA == "n/a"

Services == {"deepl", "openai", "gemini", "google translate", "anthropic", "azure"}
LLMServices == {"openai", "gemini", "anthropic"}
UnknownService == "bing"

Err(type, arg) == [raised |-> type, arg |-> arg]
NoError == Err(None, None)
Malformed == Err("AssertionError", "EasyTLException: Malformed response received")
InvalidAPIType == Err("AssertionError", "InvalidAPITypeException")
InvalidResponseFormat == Err("AssertionError", "InvalidResponseFormatException")

\* The text argument: a string, an iterable of n strings, or something else
\* (an int, a list of ints).  Unit i of an iterable is tagged by its index.
StrInput == [kind |-> "str", n |-> 1]
ListInput(n) == [kind |-> "list", n |-> n]
OtherInput == [kind |-> "other", n |-> 0]
ValidInputs == {StrInput} \cup {ListInput(n) : n \in 1..MaxLen}
Inputs == ValidInputs \cup {OtherInput}

ResponseTypeValues == {"text", "raw", "json", "raw_json", "xml"}

\* ------------------------------------------------------- settings records
DefaultModel(b) ==
    CASE b = "gemini" -> "gemini-pro"
      [] b = "openai" -> "gpt-4"
      [] b = "anthropic" -> "claude-3-haiku-20240307"
      [] OTHER -> NA

AltModel(b) ==
    CASE b = "gemini" -> "gemini--1.5-pro-latest"
      [] b = "openai" -> "gpt-3.5-turbo"
      [] b = "anthropic" -> "claude-3-opus-20240229"
      [] OTHER -> NA

_default_translation_instructions == "Please translate the following text into English."

\* The class attributes of a service before any call.
ClassAttributes(b) ==
    [model |-> DefaultModel(b),
     system_message |-> IF b \in LLMServices THEN _default_translation_instructions ELSE NA,
     temperature |-> IF b \in LLMServices THEN "0.5" ELSE NA,
     top_p |-> IF b \in LLMServices THEN "0.9" ELSE NA,
     top_k |-> IF b \in {"gemini", "anthropic"} THEN "40" ELSE NA,
     stop_sequences |-> IF b \in LLMServices THEN None ELSE NA,
     max_output_tokens |-> IF b \in LLMServices THEN None ELSE NA,
     target_lang |-> IF b \in LLMServices THEN NA ELSE "en",
     semaphore_value |-> 15,
     rate_limit_delay |-> None,
     decorator_to_use |-> None,
     log_directory |-> None,
     json_mode |-> FALSE]

\* An optional integer argument (int | None).
NoInt == [some |-> FALSE, v |-> 0]
Int(n) == [some |-> TRUE, v |-> n]

\* What a caller may pass.  model "default" and semaphore_given = FALSE stand
\* for an omitted argument, which takes the default of the function's signature.
DefaultArgs ==
    [model |-> "default", translation_instructions |-> None, temperature |-> "0.5",
     top_p |-> "0.9", top_k |-> "40", stop_sequences |-> None, max_output_tokens |-> None,
     target_lang |-> "en", semaphore_given |-> FALSE, semaphore |-> NoInt,
     translation_delay |-> None, decorator |-> None, logging_directory |-> None]

TunedArgs ==
    [model |-> "alt", translation_instructions |-> "Translate into French.", temperature |-> "0.9",
     top_p |-> "0.5", top_k |-> "10", stop_sequences |-> "stop", max_output_tokens |-> "100",
     target_lang |-> "fr", semaphore_given |-> TRUE, semaphore |-> Int(1),
     translation_delay |-> "1.0", decorator |-> "retry", logging_directory |-> "logs"]

PairArgs == [DefaultArgs EXCEPT !.semaphore_given = TRUE, !.semaphore = Int(2)]

\* Another model, everything else omitted.
ModelArgs == [DefaultArgs EXCEPT !.model = "alt"]

\* A limit of 0 and a negative delay: no function checks either.
ZeroArgs == [DefaultArgs EXCEPT !.semaphore_given = TRUE, !.semaphore = Int(0),
                                !.translation_delay = "-1.0"]

ArgPacks == {DefaultArgs, TunedArgs, PairArgs, ModelArgs, ZeroArgs}

\* The semaphore default of the *_translate_async signatures.
SignatureSemaphore(b) == IF b \in LLMServices THEN 5 ELSE 15

\* The keyword arguments the *_translate functions pass to _set_attributes:
\* the names passed, and their values.  The serial functions pass
\* semaphore=None; the instructions are not passed for openai.
KwargNames(b) ==
    CASE b = "openai" -> {"model", "temperature", "top_p", "stop_sequences", "max_output_tokens", "json_mode"}
      [] b \in {"gemini", "anthropic"} -> {"model", "system_message", "temperature", "top_p", "top_k",
                                          "stop_sequences", "max_output_tokens", "json_mode"}
      [] OTHER -> {"target_lang"}

Kwargs(b, a, async, json_mode) ==
    [passed |-> KwargNames(b),
     model |-> IF a.model = "default" THEN DefaultModel(b) ELSE AltModel(b),
     system_message |-> a.translation_instructions,
     temperature |-> a.temperature,
     top_p |-> a.top_p,
     top_k |-> a.top_k,
     stop_sequences |-> a.stop_sequences,
     max_output_tokens |-> a.max_output_tokens,
     target_lang |-> a.target_lang,
     semaphore |-> IF ~async THEN NoInt
                   ELSE IF a.semaphore_given THEN a.semaphore ELSE Int(SignatureSemaphore(b)),
     rate_limit_delay |-> a.translation_delay,
     decorator |-> a.decorator,
     logging_directory |-> a.logging_directory,
     json_mode |-> json_mode]

Given(kw, f, old) == IF f \in kw.passed THEN kw[f] ELSE old

\* The fields easytl.py passes that GeminiService._set_attributes of the
\* sources does not take: assigned as passed.
_set_more_attributes(s, kw) ==
    [s EXCEPT !.target_lang = Given(kw, "target_lang", @),
              !.rate_limit_delay = kw.rate_limit_delay,
              !.decorator_to_use = kw.decorator,
              !.json_mode = Given(kw, "json_mode", @)]

\* A _set_attributes that takes the limit from the model whatever is passed.
_set_attributes_model_limit(s, kw) ==
    LET model == Given(kw, "model", s.model)
    IN [_set_more_attributes(s, kw) EXCEPT
          !.model = model,
          !.system_message = Given(kw, "system_message", @),
          !.temperature = Given(kw, "temperature", @),
          !.top_p = Given(kw, "top_p", @),
          !.top_k = Given(kw, "top_k", @),
          !.stop_sequences = Given(kw, "stop_sequences", @),
          !.max_output_tokens = Given(kw, "max_output_tokens", @),
          !.semaphore_value = IF model # "gemini--1.5-pro-latest" THEN 15 ELSE 2,
          !.log_directory = kw.logging_directory]

\* GeminiService._set_attributes.
_set_attributes(s, kw) ==
    LET model == Given(kw, "model", s.model)
    IN [_set_more_attributes(s, kw) EXCEPT
          !.model = model,
          !.system_message = Given(kw, "system_message", @),
          !.temperature = Given(kw, "temperature", @),
          !.top_p = Given(kw, "top_p", @),
          !.top_k = Given(kw, "top_k", @),
          !.stop_sequences = Given(kw, "stop_sequences", @),
          !.max_output_tokens = Given(kw, "max_output_tokens", @),
          !.semaphore_value = IF kw.semaphore.some
                              THEN kw.semaphore.v
                              ELSE IF model # "gemini--1.5-pro-latest" THEN 15 ELSE 2,
          !.log_directory = kw.logging_directory]

\* ------------------------------------------------------------- responses
\* What the backend client returns for one unit.  Shapes:
\*   "ok"         the backend's regular response object (for anthropic an
\*                AnthropicMessage whose first block is a text block)
\*   "none"       a ChatCompletion whose message content is None
\*   "beta_text"  an AnthropicToolsBetaMessage whose first block is a text block
\*   "beta_tool"  an AnthropicToolsBetaMessage whose first block is a tool-use block
\*   "beta_other" an AnthropicToolsBetaMessage whose first block is neither
\*   "nofield"    an object without the content-bearing field
\*   "list"       a collection instead of one response object
Response(i, shape) == [unit |-> i, shape |-> shape]
NoResponse == Response(0, None)

Shapes(b) ==
    {"ok", "nofield", "list"}
      \cup (IF b = "openai" THEN {"none"} ELSE {})
      \cup (IF b = "anthropic" THEN {"beta_text", "beta_tool", "beta_other"} ELSE {})

\* The values a call returns: the extracted text of a response, the response
\* object itself ("raw"), its first element ("raw0"), the input of a tool-use
\* block, or Python's None.
Value(kind, r) == [kind |-> kind, unit |-> r.unit, shape |-> r.shape]
Ok(v) == [error |-> NoError, value |-> v]
Fail(e) == [error |-> e, value |-> Value(None, NoResponse)]

NoResult == [shape |-> None, items |-> <<>>]
Scalar(v) == [shape |-> "scalar", items |-> <<v>>]
List(vs) == [shape |-> "list", items |-> vs]
Returned(res) == [error |-> NoError, result |-> res]
Raised(e) == [error |-> e, result |-> NoResult]

HasText(r) == r.shape \in {"ok", "none", "beta_text"}
IsBeta(r) == r.shape \in {"beta_text", "beta_tool", "beta_other"}

\* The first error of a sequence of per-element outcomes, in list order,
\* as a list comprehension raises it; otherwise the list of the values.
FirstError(outs) ==
    LET bad == {i \in 1..Len(outs) : outs[i].error # NoError}
    IN IF bad = {} THEN NoError
       ELSE outs[CHOOSE i \in bad : \A j \in bad : i <= j].error

Comprehension(outs) ==
    IF FirstError(outs) # NoError THEN Raised(FirstError(outs))
    ELSE Returned(List([i \in 1..Len(outs) |-> outs[i].value]))

\* The elements of a sequence that satisfy keep, in order.
RECURSIVE Filter(_, _)
Filter(seq, keep) ==
    IF seq = <<>> THEN <<>>
    ELSE (IF keep[1] THEN <<seq[1]>> ELSE <<>>) \o Filter(Tail(seq), Tail(keep))

\* A collapse that hands back the list whatever the input was.
NoCollapse(text, vs) == Returned(List(vs))

\* translations[0] / result = translations: the collapse of the openai and
\* anthropic functions.
Collapse(text, vs) ==
    IF text.kind = "list" THEN Returned(List(vs))
    ELSE IF vs = <<>> THEN Raised(Err("IndexError", "list index out of range"))
    ELSE Returned(Scalar(vs[1]))

AttributeError == Err("AttributeError", "")
KeyError == Err("KeyError", "")
TypeError == Err("TypeError", "")
UnboundLocalError == Err("UnboundLocalError", "")

\* r["translatedText"] (google translate), r.text (deepl),
\* r[0]['translations'][0]['text'] (azure), r.text (gemini).
ExtractText(b, r) ==
    CASE r.shape = "ok" -> Ok(Value("text", r))
      [] r.shape = "list" -> IF b \in {"google translate", "azure"} THEN Fail(TypeError) ELSE Fail(AttributeError)
      [] OTHER -> IF b \in {"google translate", "azure"} THEN Fail(KeyError) ELSE Fail(AttributeError)

\* googletl_translate(_async), deepl_translate(_async): the two branches
\* after the call strategy is chosen.
MTNormalise(b, text, rtype, rs) ==
    IF text.kind = "str"
    THEN IF rs[1].shape = "list" THEN Raised(Malformed)
         ELSE IF rtype = "raw" THEN Returned(Scalar(Value("raw", rs[1])))
         ELSE LET x == ExtractText(b, rs[1])
              IN IF x.error # NoError THEN Raised(x.error) ELSE Returned(Scalar(x.value))
    ELSE IF rtype = "text"
         THEN Comprehension([i \in 1..Len(rs) |-> ExtractText(b, rs[i])])
         ELSE Returned(List([i \in 1..Len(rs) |-> Value("raw", rs[i])]))

\* azure_translate(_async): the response of one unit is itself a list, of
\* which the string branch takes element 0 before it looks at it.
AzureNormalise(text, rtype, rs) ==
    IF text.kind = "str"
    THEN IF rs[1].shape = "list" THEN Raised(Malformed)
         ELSE IF rtype = "json" THEN Returned(Scalar(Value("raw0", rs[1])))
         ELSE LET x == ExtractText("azure", rs[1])
              IN IF x.error # NoError THEN Raised(x.error) ELSE Returned(Scalar(x.value))
    ELSE IF rtype = "json"
         THEN Returned(List([i \in 1..Len(rs) |-> Value("raw", rs[i])]))
         ELSE Comprehension([i \in 1..Len(rs) |-> ExtractText("azure", rs[i])])

\* gemini_translate: both branches assert the shape before they extract.
GeminiNormalise(text, rtype, rs) ==
    IF \E i \in 1..Len(rs) : rs[i].shape # "ok" THEN Raised(Malformed)
    ELSE IF text.kind = "str"
         THEN Returned(Scalar(Value(IF rtype \in {"raw", "raw_json"} THEN "raw" ELSE "text", rs[1])))
         ELSE Returned(List([i \in 1..Len(rs) |->
                              Value(IF rtype \in {"text", "json"} THEN "text" ELSE "raw", rs[i])]))

\* gemini_translate_async: no assertion.
GeminiNormaliseAsync(text, rtype, rs) ==
    IF text.kind = "str"
    THEN IF rtype \in {"raw", "raw_json"} THEN Returned(Scalar(Value("raw", rs[1])))
         ELSE LET x == ExtractText("gemini", rs[1])
              IN IF x.error # NoError THEN Raised(x.error) ELSE Returned(Scalar(x.value))
    ELSE IF rtype \in {"text", "json"}
         THEN Comprehension([i \in 1..Len(rs) |-> ExtractText("gemini", rs[i])])
         ELSE Returned(List([i \in 1..Len(rs) |-> Value("raw", rs[i])]))

\* _result.choices[0].message.content
OpenAIContent(r) == IF r.shape = "none" THEN Value("None", r) ELSE Value("text", r)

\* openai_translate: the body of the loop for one response.
OpenAIUnit(rtype, r) ==
    IF r.shape \in {"list", "nofield"} THEN Fail(Malformed)
    ELSE IF rtype \in {"raw", "raw_json"} THEN Ok(Value("raw", r))
    ELSE Ok(OpenAIContent(r))

OpenAINormalise(text, rtype, rs) ==
    LET outs == [i \in 1..Len(rs) |-> OpenAIUnit(rtype, rs[i])]
    IN IF FirstError(outs) # NoError THEN Raised(FirstError(outs))
       ELSE Collapse(text, [i \in 1..Len(rs) |-> outs[i].value])

\* openai_translate_async: after the gather.
OpenAINormaliseAsync(text, rtype, rs) ==
    IF \E i \in 1..Len(rs) : rs[i].shape \in {"list", "nofield"} THEN Raised(Malformed)
    ELSE IF rtype \in {"raw", "raw_json"}
         THEN Collapse(text, [i \in 1..Len(rs) |-> Value("raw", rs[i])])
         ELSE Collapse(text, Filter([i \in 1..Len(rs) |-> OpenAIContent(rs[i])],
                                    [i \in 1..Len(rs) |-> rs[i].shape # "none"]))

\* anthropic_translate: the body of the loop for response i; prev is the
\* value the variable translation holds from the iteration before (Fail when
\* no iteration has assigned it).
AnthropicUnit(rtype, r, prev) ==
    IF r.shape \in {"list", "nofield"} THEN Fail(Malformed)
    ELSE IF rtype \in {"raw", "raw_json"} THEN Ok(Value("raw", r))
    ELSE CASE r.shape = "beta_text" -> Ok(Value("text", r))
           [] r.shape = "beta_tool" -> Ok(Value("input", r))
           [] r.shape = "beta_other" -> prev
           [] OTHER -> Ok(Value("text", r))

RECURSIVE AnthropicLoop(_, _, _, _)
AnthropicLoop(rtype, rs, i, prev) ==
    IF i > Len(rs) THEN <<>>
    ELSE LET out == AnthropicUnit(rtype, rs[i], prev)
         IN <<out>> \o (IF out.error # NoError THEN <<>> ELSE AnthropicLoop(rtype, rs, i + 1, out))

AnthropicNormalise(text, rtype, rs) ==
    LET outs == AnthropicLoop(rtype, rs, 1, Fail(UnboundLocalError))
    IN IF FirstError(outs) # NoError THEN Raised(FirstError(outs))
       ELSE Collapse(text, [i \in 1..Len(outs) |-> outs[i].value])

\* anthropic_translate_async: the rule is chosen by the first response.
AnthropicNormaliseAsync(text, rtype, rs) ==
    IF \E i \in 1..Len(rs) : rs[i].shape \in {"list", "nofield"} THEN Raised(Malformed)
    ELSE IF rtype \in {"raw", "raw_json"}
         THEN Collapse(text, [i \in 1..Len(rs) |-> Value("raw", rs[i])])
    ELSE IF IsBeta(rs[1])
         THEN LET outs == [i \in 1..Len(rs) |->
                            IF rs[i].shape = "beta_tool" THEN Ok(Value("input", rs[i]))
                            ELSE IF HasText(rs[i]) THEN Ok(Value("text", rs[i]))
                            ELSE Fail(AttributeError)]
              IN IF FirstError(outs) # NoError THEN Raised(FirstError(outs))
                 ELSE Collapse(text, [i \in 1..Len(rs) |-> outs[i].value])
    ELSE Collapse(text, Filter([i \in 1..Len(rs) |-> Value("text", rs[i])],
                               [i \in 1..Len(rs) |-> HasText(rs[i])]))

\* What a *_translate / *_translate_async function makes of the responses
\* rs of its units (rs[i] answers unit i).
Normalise(b, async, text, rtype, rs) ==
    CASE b \in {"google translate", "deepl"} -> MTNormalise(b, text, rtype, rs)
      [] b = "azure" -> AzureNormalise(text, rtype, rs)
      [] b = "gemini" -> IF async THEN GeminiNormaliseAsync(text, rtype, rs)
                         ELSE GeminiNormalise(text, rtype, rs)
      [] b = "openai" -> IF async THEN OpenAINormaliseAsync(text, rtype, rs)
                         ELSE OpenAINormalise(text, rtype, rs)
      [] b = "anthropic" -> IF async THEN AnthropicNormaliseAsync(text, rtype, rs)
                            ELSE AnthropicNormalise(text, rtype, rs)

\* -------------------------------------------------------------- the state
MaxOverlap == 2    \* calls that may be under way at once

VARIABLES
    service,      \* the backend whose service class this behaviour exercises
    settings,     \* the class attributes of that service: its Settings Record
    credentials,  \* the credentials set for it: None, "good" or "bad"
    semaphore,    \* Service._semaphore: [id, cap]; permits are held by tasks
    client,       \* Service._client and Service._generation_config
    calls,        \* per slot, the API call that is in it
    ncalls        \* API calls made so far

vars == <<service, settings, credentials, semaphore, client, calls, ncalls>>

Slots == 1..MaxOverlap

NoRequest == [unit |-> 0, instructions |-> None, model |-> None, json_mode |-> FALSE,
              decorator |-> None, delay |-> None]
\* One unit of a call: st is "created" (coroutine built, not yet run),
\* "waiting" (on its semaphore), "inflight" (request sent, permit held),
\* "done", "failed" or "cancelled".  deco is the decorator around the unit's
\* backend call, attempts the argument of each backend call made for it.
NewTask(i, instr, deco) ==
    [unit |-> i, st |-> "created", sem |-> 0, cap |-> 0, instr |-> instr, deco |-> deco,
     attempts |-> <<>>, req |-> NoRequest, resp |-> NoResponse]

NoCall ==
    [api |-> None, service |-> None, text |-> OtherInput, response_type |-> None,
     override |-> FALSE, args |-> DefaultArgs, pc |-> "idle", probes |-> 0,
     pre |-> ClassAttributes(UnknownService), post |-> ClassAttributes(UnknownService),
     tasks |-> <<>>, error |-> NoError, result |-> NoResult]

Tasks == {<<k, i>> : k \in Slots, i \in 1..MaxLen}
Live(k, i) == i <= Len(calls[k].tasks) /\ calls[k].tasks[i].st \in {"waiting", "inflight"}
InFlight(k, i) == i <= Len(calls[k].tasks) /\ calls[k].tasks[i].st = "inflight"
\* Permits counted as taken also for units whose request failed: a permit
\* that a failure does not give back.
HeldByFailedToo(id) ==
    Cardinality({t \in Tasks : /\ t[2] <= Len(calls[t[1]].tasks)
                               /\ calls[t[1]].tasks[t[2]].st \in {"inflight", "failed"}
                               /\ calls[t[1]].tasks[t[2]].sem = id})
Held(id) == Cardinality({t \in Tasks : InFlight(t[1], t[2]) /\ calls[t[1]].tasks[t[2]].sem = id})

\* A serial call blocks the thread until it returns.
Idle == \A k \in Slots : calls[k].pc # "serial"
Free(k) == calls[k].pc = "idle"
\* A new call takes the lowest free slot.
Takes(k) == Free(k) /\ \A j \in Slots : j < k => ~Free(j)
\* A call can be made from slot k.
Ready(k) == Idle /\ Takes(k) /\ ncalls < MaxCalls

\* GeminiService._redefine_client: the client, the generation config and a
\* new semaphore, from the class attributes s.
_redefine_client(s) ==
    [client |-> [model |-> s.model,
                 system_instruction |-> IF s.model = "gemini--1.5-pro-latest"
                                        THEN s.system_message ELSE None,
                 temperature |-> s.temperature, top_p |-> s.top_p, top_k |-> s.top_k,
                 stop_sequences |-> s.stop_sequences,
                 max_output_tokens |-> s.max_output_tokens],
     semaphore |-> [id |-> CHOOSE n \in 1..(Cardinality(Tasks) + 1) :
                              /\ \A t \in Tasks : Live(t[1], t[2]) => calls[t[1]].tasks[t[2]].sem # n
                              /\ \A m \in 1..n : m < n =>
                                   \E t \in Tasks : Live(t[1], t[2]) /\ calls[t[1]].tasks[t[2]].sem = m,
                    cap |-> s.semaphore_value]]

Init ==
    /\ service \in Services
    /\ settings = ClassAttributes(service)
    /\ credentials = None
    /\ semaphore = [id |-> 1, cap |-> ClassAttributes(service).semaphore_value]
    /\ client = [model |-> None, system_instruction |-> None, temperature |-> None,
                 top_p |-> None, top_k |-> None, stop_sequences |-> None,
                 max_output_tokens |-> None]
    /\ calls = [k \in Slots |-> NoCall]
    /\ ncalls = 0

\* ------------------------------------------------ credentials and the gate
\* set_credentials without its check of api_type.
set_credentials_unchecked(k, api_type, good) ==
    /\ Ready(k)
    /\ ncalls' = ncalls + 1
    /\ calls' = [calls EXCEPT ![k] = [NoCall EXCEPT !.api = "set_credentials", !.service = api_type,
                                                   !.pre = settings, !.post = settings,
                                                   !.pc = "returned"]]
    /\ credentials' = IF good THEN "good" ELSE "bad"
    /\ UNCHANGED <<service, settings, semaphore, client>>

\* EasyTL.set_credentials.
set_credentials(k, api_type, good) ==
    /\ Ready(k)
    /\ ncalls' = ncalls + 1
    /\ LET c == [NoCall EXCEPT !.api = "set_credentials", !.service = api_type,
                               !.pre = settings, !.post = settings]
       IN IF api_type \notin Services
          THEN /\ calls' = [calls EXCEPT ![k] = [c EXCEPT !.pc = "raised", !.error = InvalidAPIType]]
               /\ UNCHANGED credentials
          ELSE /\ calls' = [calls EXCEPT ![k] = [c EXCEPT !.pc = "returned"]]
               /\ credentials' = IF good THEN "good" ELSE "bad"
    /\ UNCHANGED <<service, settings, semaphore, client>>

\* Service._test_api_key_validity: one request to the backend; (valid, e).
\* e is of the backend's error family unless fault.
_test_api_key_validity(fault) ==
    IF credentials = "good" THEN [valid |-> TRUE, e |-> None]
    ELSE [valid |-> FALSE, e |-> IF fault THEN "other error" ELSE "backend error"]

\* A test_credentials that raises whenever the credentials are not valid.
test_credentials_raising(fault) ==
    LET t == _test_api_key_validity(fault)
    IN IF ~t.valid
       THEN [error |-> Err("AssertionError", t.e), valid |-> FALSE, e |-> t.e]
       ELSE [error |-> NoError, valid |-> t.valid, e |-> t.e]

\* EasyTL.test_credentials, after its check of api_type: the error it raises
\* (NoError when it returns) and the tuple it returns.
test_credentials(fault) ==
    LET t == _test_api_key_validity(fault)
    IN IF ~t.valid /\ t.e # "backend error"
       THEN [error |-> Err("AssertionError", t.e), valid |-> FALSE, e |-> t.e]
       ELSE [error |-> NoError, valid |-> t.valid, e |-> t.e]

TestCredentials(k, api_type, fault) ==
    /\ Ready(k)
    /\ ncalls' = ncalls + 1
    /\ LET c == [NoCall EXCEPT !.api = "test_credentials", !.service = api_type,
                               !.pre = settings, !.post = settings]
           t == test_credentials(fault)
       IN IF api_type \notin Services
          THEN /\ calls' = [calls EXCEPT ![k] = [c EXCEPT !.pc = "raised", !.error = InvalidAPIType]]
               /\ UNCHANGED <<semaphore, client>>
          ELSE /\ calls' = [calls EXCEPT ![k] =
                              [c EXCEPT !.probes = 1,
                                        !.pc = IF t.error # NoError THEN "raised" ELSE "returned",
                                        !.error = t.error,
                                        !.result = IF t.error # NoError THEN NoResult
                                                   ELSE [shape |-> "tuple",
                                                         items |-> <<[kind |-> IF t.valid THEN "True" ELSE "False",
                                                                      unit |-> 0, shape |-> t.e]>>]]]
               /\ semaphore' = _redefine_client(settings).semaphore
               /\ client' = _redefine_client(settings).client
    /\ UNCHANGED <<service, settings, credentials>>

\* The response types each *_translate function accepts.
ResponseTypes(b) ==
    CASE b \in {"google translate", "deepl"} -> {"text", "raw"}
      [] b = "azure" -> {"text", "json"}
      [] OTHER -> {"text", "raw", "json", "raw_json"}

InvalidTextInput(b) ==
    IF b \in {"openai", "anthropic"} THEN Err("AssertionError", "InvalidTextInputException")
    ELSE Err("InvalidTextInputException", "")

\* An override block without its second write of the instructions.
OverrideOnce(b, s, a, async, rtype) ==
    _set_attributes(s, Kwargs(b, a, async, rtype \in {"json", "raw_json"}))

\* The settings after the override block of a *_translate function.
Override(b, s, a, async, rtype) ==
    LET t == _set_attributes(s, Kwargs(b, a, async, rtype \in {"json", "raw_json"}))
    IN IF b \in {"gemini", "anthropic"}
       THEN [t EXCEPT !.system_message = IF a.translation_instructions # None
                                         THEN a.translation_instructions
                                         ELSE _default_translation_instructions]
       ELSE t

\* A *_translate function with every setting taken from the call, whatever
\* override_previous_settings says.
AlwaysOverridden(b, s, a, async, rtype, override) == Override(b, s, a, async, rtype)

\* if(override_previous_settings == True): the override block, or nothing.
Overridden(b, s, a, async, rtype, override) ==
    IF override THEN Override(b, s, a, async, rtype) ELSE s

\* The local variable translation_instructions of openai_translate; for
\* anthropic the argument AnthropicService._system; gemini reads its
\* instructions when it sends.
UnitInstructions(b, s, a, override) ==
    CASE b = "openai" -> IF override
                         THEN IF a.translation_instructions # None THEN a.translation_instructions
                              ELSE _default_translation_instructions
                         ELSE s.system_message
      [] b = "anthropic" -> s.system_message
      [] OTHER -> None

\* A gate that tests the credentials before it looks at the response type.
GateCredentialsFirst(api, svc, text, rtype, override, a, fault) ==
    LET async == api = "translate_async"
        cred == test_credentials(fault)
        s == Overridden(svc, settings, a, async, rtype, override)
    IN IF svc \notin Services THEN [error |-> InvalidAPIType, probes |-> 0, settings |-> settings]
       ELSE IF cred.error # NoError THEN [error |-> cred.error, probes |-> 1, settings |-> settings]
       ELSE IF rtype \notin ResponseTypes(svc)
       THEN [error |-> InvalidResponseFormat, probes |-> 1, settings |-> settings]
       ELSE IF svc \notin LLMServices /\ a.decorator # None /\ s.decorator_to_use = None
       THEN [error |-> Err("TypeError", "'NoneType' object is not callable"), probes |-> 1, settings |-> s]
       ELSE IF text.kind = "other" THEN [error |-> InvalidTextInput(svc), probes |-> 1, settings |-> s]
       ELSE [error |-> NoError, probes |-> 1, settings |-> s]

\* EasyTL.translate / translate_async and the *_translate function they call,
\* from the first line to the dispatch: the error raised there (NoError when
\* the units are dispatched), the credential requests made, the settings.
Gate(api, svc, text, rtype, override, a, fault) ==
    LET async == api = "translate_async"
        cred == test_credentials(fault)
        s == Overridden(svc, settings, a, async, rtype, override)
    IN IF svc \notin Services THEN [error |-> InvalidAPIType, probes |-> 0, settings |-> settings]
       ELSE IF rtype \notin ResponseTypes(svc)
       THEN [error |-> InvalidResponseFormat, probes |-> 0, settings |-> settings]
       ELSE IF cred.error # NoError THEN [error |-> cred.error, probes |-> 1, settings |-> settings]
       ELSE IF svc \notin LLMServices /\ a.decorator # None /\ s.decorator_to_use = None
       THEN [error |-> Err("TypeError", "'NoneType' object is not callable"), probes |-> 1, settings |-> s]
       ELSE IF text.kind = "other" THEN [error |-> InvalidTextInput(svc), probes |-> 1, settings |-> s]
       ELSE [error |-> NoError, probes |-> 1, settings |-> s]

\* ---------------------------------------------------------------- dispatch
BackendError == Err("BackendError", "")
MaxChars == 3      \* longest string passed to calculate_cost

\* A batch whose instructions go with its first unit only.
RequestInstructionsOnce(b, t, s, cl) ==
    [unit |-> t.unit,
     instructions |-> IF t.unit # 1 THEN None
                      ELSE CASE b = "gemini" -> IF s.model = "gemini--1.5-pro-latest"
                                                THEN cl.system_instruction ELSE s.system_message
                             [] OTHER -> t.instr,
     model |-> cl.model,
     json_mode |-> s.json_mode,
     decorator |-> t.deco,
     delay |-> IF b = "gemini" THEN None ELSE s.rate_limit_delay]

\* The delay a service sleeps in its per-unit call before the request: the
\* stored inter-request delay.
_rate_limit_sleep(s) == s.rate_limit_delay

\* Service.__translate_text(_async): the request as it is built when it is
\* sent, from the class attributes s and the client cl.  delay is what the
\* unit has slept before it; GeminiService sends without a sleep.
Request(b, t, s, cl) ==
    [unit |-> t.unit,
     instructions |-> CASE b = "gemini" -> IF s.model = "gemini--1.5-pro-latest"
                                           THEN cl.system_instruction ELSE s.system_message
                        [] OTHER -> t.instr,
     model |-> cl.model,
     json_mode |-> s.json_mode,
     decorator |-> t.deco,
     delay |-> IF b = "gemini" THEN None ELSE _rate_limit_sleep(s)]

\* The decorator put around the backend call of a unit.  The functions of
\* the three translation-API backends wrap Service._translate_text with the
\* stored decorator when this call passes one; the services of the LLM
\* backends wrap __translate_text with the stored decorator, when the unit starts.
WrappedWith(b, s, a) ==
    IF b \in LLMServices THEN None
    ELSE IF a.decorator # None THEN s.decorator_to_use ELSE None

Begin(b, t, s) == IF b \in LLMServices THEN [t EXCEPT !.deco = s.decorator_to_use] ELSE t

\* A decorated function that, when called again, is handed the arguments of
\* the function around it (0) instead of the unit's text.
SendOuterArguments(b, t, s, cl) ==
    [t EXCEPT !.st = "inflight", !.req = Request(b, t, s, cl),
              !.attempts = Append(@, IF @ = <<>> THEN t.unit ELSE 0)]

\* One backend call for the unit: the wrapped function is called with the
\* unit's text.
Send(b, t, s, cl) ==
    [t EXCEPT !.st = "inflight", !.req = Request(b, t, s, cl), !.attempts = Append(@, t.unit)]

\* Service.__translate_text_async up to its request: the unit takes a permit
\* of the semaphore sem, of which held are taken, or waits for one.
Enter(b, t, sem, held, s, cl) ==
    IF held < sem.cap
    THEN Send(b, [t EXCEPT !.sem = sem.id, !.cap = sem.cap], s, cl)
    ELSE [t EXCEPT !.st = "waiting", !.sem = sem.id, !.cap = sem.cap]

\* An injected decorator that retries on failure makes up to MaxTries calls.
MaxTries == 3
\* No decorator retries.
NoRetries(t) == FALSE
Retries(t) == t.deco = "retry" /\ Len(t.attempts) < MaxTries

\* A serial function that has every unit requested at once.
SerialStartAll(b, ts, s, cl) == [i \in 1..Len(ts) |-> Send(b, Begin(b, ts[i], s), s, cl)]

\* The start of a serial function over its units: _translate_text is called
\* for the first one, and returns before the next is looked at.
SerialStart(b, ts, s, cl) == [ts EXCEPT ![1] = Send(b, Begin(b, ts[1], s), s, cl)]

Responses(c) == [i \in 1..Len(c.tasks) |-> c.tasks[i].resp]

\* The end of a *_translate function once every unit has its response.
Complete(c) ==
    LET out == Normalise(c.service, c.api = "translate_async", c.text, c.response_type, Responses(c))
    IN [c EXCEPT !.pc = IF out.error # NoError THEN "raised" ELSE "returned",
                 !.error = out.error, !.result = out.result]

\* EasyTL.translate and EasyTL.translate_async, to the first suspension: the
\* gate, the override, and the dispatch of the first unit (serial, or a
\* string awaited in place) or the creation of the unit coroutines.
Translate(k, api, svc, text, rtype, override, a, fault) ==
    /\ Ready(k)
    /\ svc \in {service, UnknownService}
    /\ ncalls' = ncalls + 1
    /\ LET g == Gate(api, svc, text, rtype, override, a, fault)
           async == api = "translate_async"
           c == [NoCall EXCEPT !.api = api, !.service = svc, !.text = text,
                               !.response_type = rtype, !.override = override, !.args = a,
                               !.probes = g.probes, !.pre = settings, !.post = g.settings]
           rc == _redefine_client(g.settings)
           ts == [i \in 1..text.n |-> NewTask(i, UnitInstructions(svc, g.settings, a, override),
                                               WrappedWith(svc, g.settings, a))]
           first == Enter(svc, Begin(svc, ts[1], g.settings), rc.semaphore, 0, g.settings, rc.client)
       IN /\ settings' = g.settings
          /\ IF g.probes = 0 THEN UNCHANGED <<semaphore, client>>
             ELSE IF g.error # NoError
             THEN semaphore' = _redefine_client(settings).semaphore
                  /\ client' = _redefine_client(settings).client
             ELSE semaphore' = rc.semaphore /\ client' = rc.client
          /\ calls' = [calls EXCEPT ![k] =
                IF g.error # NoError THEN [c EXCEPT !.pc = "raised", !.error = g.error]
                ELSE IF async /\ text.kind = "list" THEN [c EXCEPT !.pc = "gather", !.tasks = ts]
                ELSE IF async THEN [c EXCEPT !.pc = "await", !.tasks = [ts EXCEPT ![1] = first]]
                ELSE [c EXCEPT !.pc = "serial",
                               !.tasks = SerialStart(svc, ts, g.settings, rc.client)]]
    /\ UNCHANGED <<service, credentials>>

\* asyncio.gather starts the unit tasks, in order: each runs to its request,
\* or to its wait for the semaphore the class holds at that moment.
StartTasks(k) ==
    /\ Idle /\ calls[k].pc = "gather"
    /\ LET c == calls[k]
           held == Held(semaphore.id)
       IN calls' = [calls EXCEPT ![k] =
             [c EXCEPT !.pc = "await",
                       !.tasks = [i \in 1..Len(c.tasks) |->
                                    Enter(c.service, Begin(c.service, c.tasks[i], settings), semaphore,
                                          held + (i - 1), settings, client)]]]
    /\ UNCHANGED <<service, settings, credentials, semaphore, client, ncalls>>

\* A unit that waited gets a permit of its semaphore and sends its request.
Acquire(k, i) ==
    /\ Idle /\ i <= Len(calls[k].tasks)
    /\ calls[k].tasks[i].st = "waiting"
    /\ Held(calls[k].tasks[i].sem) < calls[k].tasks[i].cap
    /\ LET t == calls[k].tasks[i]
       IN calls' = [calls EXCEPT ![k].tasks[i] = Send(calls[k].service, t, settings, client)]
    /\ UNCHANGED <<service, settings, credentials, semaphore, client, ncalls>>

\* The backend answers an asynchronous unit (out is the shape of its
\* response, or "fail"); the unit gives its permit back.  A retrying
\* decorator calls __translate_text_async again, which takes a permit of the
\* semaphore the class holds by then.
Respond(k, i, out) ==
    /\ Idle /\ calls[k].api = "translate_async" /\ InFlight(k, i)
    /\ out # "fail" => credentials = "good" /\ out \in Shapes(calls[k].service)
    /\ LET t == calls[k].tasks[i]
           others == Held(semaphore.id) - (IF t.sem = semaphore.id THEN 1 ELSE 0)
       IN calls' = [calls EXCEPT ![k].tasks[i] =
             IF out # "fail" THEN [t EXCEPT !.st = "done", !.resp = Response(i, out)]
             ELSE IF Retries(t) THEN Enter(calls[k].service, t, semaphore, others, settings, client)
             ELSE [t EXCEPT !.st = "failed"]]
    /\ UNCHANGED <<service, settings, credentials, semaphore, client, ncalls>>

\* A finish that hands back what the answered units gave when another failed.
FinishPartial(k) ==
    /\ Idle /\ calls[k].pc = "await"
    /\ \A i \in 1..Len(calls[k].tasks) : calls[k].tasks[i].st \in {"done", "failed"}
    /\ calls' = [calls EXCEPT ![k] = Complete(calls[k])]
    /\ UNCHANGED <<service, settings, credentials, semaphore, client, ncalls>>

\* The awaited gather (or the awaited unit of a string) resumes the call: it
\* raises as soon as one unit has failed, and returns when all are done.
Finish(k) ==
    /\ Idle /\ calls[k].pc = "await"
    /\ LET c == calls[k]
           failed == \E i \in 1..Len(c.tasks) : c.tasks[i].st = "failed"
       IN /\ failed \/ \A i \in 1..Len(c.tasks) : c.tasks[i].st = "done"
          /\ calls' = [calls EXCEPT ![k] =
                IF failed THEN [c EXCEPT !.pc = "raised", !.error = BackendError]
                ELSE Complete(c)]
    /\ UNCHANGED <<service, settings, credentials, semaphore, client, ncalls>>

CancelledError == Err("CancelledError", "")

\* The caller cancels the task that awaits translate_async.  The awaited
\* gather cancels its unit tasks, which get CancelledError where they are
\* suspended.  When a unit has failed, the gather may already be done (settled
\* says so) while the call has not resumed yet: then the cancellation reaches
\* the call only, not the units.
Cancel(k, settled) ==
    /\ Idle /\ calls[k].api = "translate_async" /\ calls[k].pc \in {"gather", "await"}
    /\ settled => \E i \in 1..Len(calls[k].tasks) : calls[k].tasks[i].st = "failed"
    /\ LET c == calls[k]
       IN calls' = [calls EXCEPT ![k] =
             [c EXCEPT !.pc = "raised", !.error = CancelledError,
                       !.tasks = [i \in 1..Len(c.tasks) |->
                                    IF ~settled /\ c.tasks[i].st \in {"created", "waiting", "inflight"}
                                    THEN [c.tasks[i] EXCEPT !.st = "cancelled"]
                                    ELSE c.tasks[i]]]]
    /\ UNCHANGED <<service, settings, credentials, semaphore, client, ncalls>>

\* A serial call gets the response of its unit in flight and goes on: the
\* openai and anthropic loops look at each response before the next request,
\* the other functions once all units are answered.
SerialRespond(k, out) ==
    /\ calls[k].pc = "serial"
    /\ out # "fail" => credentials = "good" /\ out \in Shapes(calls[k].service)
    /\ LET c == calls[k]
           i == CHOOSE j \in 1..Len(c.tasks) : c.tasks[j].st = "inflight"
           got == [c EXCEPT !.tasks[i] = [@ EXCEPT !.st = "done", !.resp = Response(i, out)]]
           sofar == Normalise(c.service, FALSE, ListInput(i), c.response_type, SubSeq(Responses(got), 1, i))
           rc == _redefine_client(settings)
       IN IF out = "fail" /\ Retries(c.tasks[i])
          THEN /\ calls' = [calls EXCEPT ![k].tasks[i] =
                     Send(c.service, c.tasks[i], settings,
                          IF c.service \in LLMServices THEN client ELSE rc.client)]
               /\ IF c.service \in LLMServices THEN UNCHANGED <<semaphore, client>>
                  ELSE semaphore' = rc.semaphore /\ client' = rc.client
          ELSE IF out = "fail"
          THEN /\ calls' = [calls EXCEPT ![k] = [c EXCEPT !.pc = "raised", !.error = BackendError,
                                                          !.tasks[i].st = "failed"]]
               /\ UNCHANGED <<semaphore, client>>
          ELSE IF c.service \in {"openai", "anthropic"} /\ sofar.error # NoError
          THEN /\ calls' = [calls EXCEPT ![k] = [got EXCEPT !.pc = "raised", !.error = sofar.error]]
               /\ UNCHANGED <<semaphore, client>>
          ELSE IF i < Len(c.tasks)
          THEN /\ calls' = [calls EXCEPT ![k] =
                     [got EXCEPT !.tasks[i + 1] =
                         Send(c.service, Begin(c.service, c.tasks[i + 1], settings), settings, rc.client)]]
               /\ semaphore' = rc.semaphore /\ client' = rc.client
          ELSE /\ calls' = [calls EXCEPT ![k] = Complete(got)]
               /\ UNCHANGED <<semaphore, client>>
    /\ UNCHANGED <<service, settings, credentials, ncalls>>

\* EasyTL.calculate_cost with GeminiService._calculate_cost: the number of
\* copies of the instructions in the text handed to the estimator.  chars is
\* the length of text when it is a string.
CalculateCost(k, svc, text, chars) ==
    /\ Ready(k)
    /\ svc \in {service, UnknownService}
    /\ ncalls' = ncalls + 1
    /\ LET c == [NoCall EXCEPT !.api = "calculate_cost", !.service = svc, !.text = text,
                               !.pre = settings, !.post = settings]
           copies == CASE text.kind = "str" -> chars
                       [] text.kind = "list" -> text.n
                       [] OTHER -> 1
       IN IF svc \notin Services
          THEN /\ calls' = [calls EXCEPT ![k] = [c EXCEPT !.pc = "raised", !.error = InvalidAPIType]]
               /\ UNCHANGED <<semaphore, client>>
          ELSE /\ calls' = [calls EXCEPT ![k] =
                     [c EXCEPT !.pc = "returned",
                               !.result = Scalar([kind |-> "cost",
                                                  unit |-> IF svc \in LLMServices THEN copies ELSE 0,
                                                  shape |-> None])]]
               /\ semaphore' = _redefine_client(settings).semaphore
               /\ client' = _redefine_client(settings).client
    /\ UNCHANGED <<service, settings, credentials>>

\* The caller has the outcome of a call that has ended, once none of its
\* units is left running.
Collect(k) ==
    /\ calls[k].pc \in {"returned", "raised"}
    /\ \A i \in 1..MaxLen : ~Live(k, i)
    /\ calls' = [calls EXCEPT ![k] = NoCall]
    /\ UNCHANGED <<service, settings, credentials, semaphore, client, ncalls>>

\* One call at a time: every call is made from slot 1, with any arguments.
Next ==
    \/ \E k \in {1} : Ready(k) /\ \E b \in {service, UnknownService}, good \in BOOLEAN :
          set_credentials(k, b, good)
    \/ \E k \in {1} : Ready(k) /\ \E b \in {service, UnknownService}, fault \in BOOLEAN :
          TestCredentials(k, b, fault)
    \/ \E k \in {1} : Ready(k) /\
          \E api \in {"translate", "translate_async"}, b \in {service, UnknownService},
             text \in Inputs, rtype \in ResponseTypeValues, override \in BOOLEAN,
             a \in ArgPacks, fault \in BOOLEAN :
             Translate(k, api, b, text, rtype, override, a, fault)
    \/ \E k \in {1} : Ready(k) /\ \E b \in {service, UnknownService}, text \in Inputs, chars \in 1..MaxChars :
          CalculateCost(k, b, text, chars)
    \/ \E k \in Slots : StartTasks(k)
    \/ \E k \in Slots, i \in 1..MaxLen : Acquire(k, i)
    \/ \E k \in Slots, i \in 1..MaxLen, out \in Shapes(service) \cup {"fail"} : Respond(k, i, out)
    \/ \E k \in Slots : Finish(k)
    \/ \E k \in Slots, settled \in BOOLEAN : Cancel(k, settled)
    \/ \E k \in Slots, out \in Shapes(service) \cup {"fail"} : SerialRespond(k, out)
    \/ \E k \in Slots : Collect(k)

Spec == Init /\ [][Next]_vars

\* Calls that overlap: translate_async calls with a concurrency limit of 1
\* or 2, made from any free slot while others are under way.
NextOverlap ==
    \/ \E k \in Slots : Ready(k) /\ \E good \in BOOLEAN : set_credentials(k, service, good)
    \/ \E k \in Slots : Ready(k) /\
          \E text \in {StrInput, ListInput(MaxLen)}, override \in BOOLEAN, a \in {TunedArgs, PairArgs} :
             Translate(k, "translate_async", service, text, "text", override, a, FALSE)
    \/ \E k \in Slots : StartTasks(k)
    \/ \E k \in Slots, i \in 1..MaxLen : Acquire(k, i)
    \/ \E k \in Slots, i \in 1..MaxLen, out \in {"ok", "fail"} : Respond(k, i, out)
    \/ \E k \in Slots : Finish(k)
    \/ \E k \in Slots : Collect(k)

SpecOverlap == Init /\ [][NextOverlap]_vars

\* ------------------------------------------------------------------ claims
TranslateAPIs == {"translate", "translate_async"}
IsTranslate(k) == calls[k].api \in TranslateAPIs /\ calls[k].service \in Services
Sent(k) == {i \in 1..Len(calls[k].tasks) : calls[k].tasks[i].req # NoRequest}

\* C1: a translate_async call on an iterable returns a list whose element i
\* is the result of input i, for every backend.
C1_OrderPreserved ==
    \A k \in Slots :
        (IsTranslate(k) /\ calls[k].api = "translate_async" /\ calls[k].text.kind = "list"
            /\ calls[k].pc = "returned")
        => \A i \in 1..Len(calls[k].result.items) : calls[k].result.items[i].unit = i

\* C2: a call on an iterable of N >= 1 strings that returns, returns a list
\* of exactly N results, for every backend, mode and response type.
C2_ListOfSameLength ==
    \A k \in Slots :
        (IsTranslate(k) /\ calls[k].text.kind = "list" /\ calls[k].pc = "returned")
        => /\ calls[k].result.shape = "list"
           /\ Len(calls[k].result.items) = calls[k].text.n

\* C3: a call on a single string that returns, returns one scalar result
\* (the result of that string), never a list.
C3_StringGivesScalar ==
    \A k \in Slots :
        (IsTranslate(k) /\ calls[k].text.kind = "str" /\ calls[k].pc = "returned")
        => /\ calls[k].result.shape = "scalar"
           /\ Len(calls[k].result.items) = 1
           /\ calls[k].result.items[1].unit = 1

C3_Witness ==
    \E k \in Slots :
        /\ IsTranslate(k) /\ calls[k].text.kind = "str" /\ calls[k].pc = "returned"
        /\ calls[k].service = "openai" /\ calls[k].api = "translate_async"
        /\ calls[k].result.items[1].kind = "text"

\* C4: with invalid credentials set, translate and translate_async raise and
\* send no unit to the backend.
C4_InvalidCredentialsSendNothing ==
    \A k \in Slots :
        (IsTranslate(k) /\ credentials = "bad")
        => calls[k].pc = "raised" /\ Sent(k) = {}

\* C5: a response type the backend does not support raises
\* InvalidResponseFormatException before the credentials are tested and
\* before any unit is dispatched.
C5_ResponseTypeCheckedFirst ==
    \A k \in Slots :
        (IsTranslate(k) /\ calls[k].response_type \notin ResponseTypes(calls[k].service))
        => /\ calls[k].pc = "raised"
           /\ calls[k].error.arg = "InvalidResponseFormatException"
           /\ calls[k].probes = 0
           /\ calls[k].tasks = <<>>
           /\ calls[k].post = calls[k].pre

C5_Witness ==
    \E k \in Slots :
        /\ IsTranslate(k) /\ calls[k].service = "google translate"
        /\ calls[k].response_type = "json" /\ calls[k].text.kind = "list"
        /\ credentials = "good" /\ calls[k].pc = "raised"

\* C6: every operation (set_credentials, test_credentials, translate,
\* translate_async, calculate_cost) on an unrecognized backend raises
\* InvalidAPITypeException and touches nothing: no settings, no credentials,
\* no client or semaphore, no backend request.
C6_UnknownBackendRejected ==
    [][\A k \in Slots :
          (calls[k].pc = "idle" /\ calls'[k].pc # "idle" /\ calls'[k].service \notin Services)
          => /\ calls'[k].pc = "raised"
             /\ calls'[k].error.arg = "InvalidAPITypeException"
             /\ calls'[k].probes = 0
             /\ calls'[k].tasks = <<>>
             /\ UNCHANGED <<settings, credentials, semaphore, client>>]_vars

C6_Witness ==
    \E k \in Slots :
        /\ calls[k].service = UnknownService /\ calls[k].api = "translate_async"
        /\ calls[k].override /\ calls[k].args = TunedArgs /\ calls[k].text.kind = "list"
        /\ calls[k].pc = "raised" /\ credentials = "good"

\* C7: a text that is neither a string nor an iterable of strings raises
\* InvalidTextInputException before any request of any kind is made.
C7_InvalidTextBeforeAnyRequest ==
    \A k \in Slots :
        (IsTranslate(k) /\ calls[k].text.kind = "other"
            /\ calls[k].response_type \in ResponseTypes(calls[k].service))
        => /\ calls[k].pc = "raised"
           /\ calls[k].error.arg = "InvalidTextInputException"
              \/ calls[k].error.raised = "InvalidTextInputException"
           /\ calls[k].probes = 0
           /\ calls[k].tasks = <<>>

\* C8: the unit requests of translate_async in flight for a backend never
\* exceed the backend's current concurrency limit, overlapping calls included.
AsyncInFlight == {t \in Tasks : InFlight(t[1], t[2]) /\ calls[t[1]].api = "translate_async"}
C8_InFlightWithinLimit == Cardinality(AsyncInFlight) <= settings.semaphore_value

\* C9: after a call with override = true that got past its gates, every field
\* of the Settings Record holds the value supplied with that call.
Supplied(k) ==
    LET c == calls[k]
        b == c.service
        a == c.args
    IN /\ b \in LLMServices =>
            /\ c.post.model = (IF a.model = "default" THEN DefaultModel(b) ELSE AltModel(b))
            /\ c.post.temperature = a.temperature
            /\ c.post.top_p = a.top_p
            /\ b # "openai" => c.post.top_k = a.top_k
            /\ c.post.stop_sequences = a.stop_sequences
            /\ c.post.max_output_tokens = a.max_output_tokens
            /\ a.translation_instructions # None => c.post.system_message = a.translation_instructions
            /\ c.post.json_mode = (c.response_type \in {"json", "raw_json"})
       /\ b \notin LLMServices => c.post.target_lang = a.target_lang
       /\ (c.api = "translate_async" /\ a.semaphore_given) => c.post.semaphore_value = a.semaphore.v
       /\ c.post.rate_limit_delay = a.translation_delay
       /\ c.post.log_directory = a.logging_directory
       /\ c.post.decorator_to_use = a.decorator

C9_OverrideReplacesEveryField ==
    \A k \in Slots :
        (IsTranslate(k) /\ calls[k].override /\ calls[k].probes = 1
            /\ calls[k].error.raised # "AssertionError")
        => Supplied(k) /\ settings = calls[k].post

\* C10: a call with override = false leaves every field of the Settings
\* Record as it was, whatever values the call supplies.
C10_NoOverrideKeepsSettings ==
    \A k \in Slots :
        (IsTranslate(k) /\ ~calls[k].override)
        => calls[k].post = calls[k].pre /\ settings = calls[k].pre

C10_Witness ==
    \E k \in Slots :
        /\ IsTranslate(k) /\ ~calls[k].override /\ calls[k].args = TunedArgs
        /\ calls[k].pre # ClassAttributes(calls[k].service)
        /\ calls[k].pc = "returned"

\* C11: a call without override dispatches its units with the settings the
\* Settings Record holds, those the last override call established: model,
\* instructions, JSON mode and decorator.  Such a call leaves the record as
\* it is, so two of them in a row dispatch with the same settings.
C11_StoredSettingsInEffect ==
    \A k \in Slots :
        (IsTranslate(k) /\ ~calls[k].override)
        => \A i \in Sent(k) :
              LET q == calls[k].tasks[i].req
              IN /\ q.decorator = settings.decorator_to_use
                 /\ q.json_mode = settings.json_mode
                 /\ q.model = settings.model
                 /\ calls[k].service \in LLMServices => q.instructions = settings.system_message

\* C12: under an injected decorator that retries on failure, every backend
\* call made for a unit gets the unit's own text, the unit fails only after
\* MaxTries calls, and a unit answered at its third call yields the result of
\* that answer.
C12_RetryKeepsArgument ==
    \A k \in Slots : \A i \in 1..Len(calls[k].tasks) :
        LET t == calls[k].tasks[i]
        IN t.deco = "retry" =>
              /\ \A j \in 1..Len(t.attempts) : t.attempts[j] = t.unit
              /\ Len(t.attempts) <= MaxTries
              /\ t.st = "failed" => Len(t.attempts) = MaxTries
              /\ t.st = "done" => t.resp.unit = t.unit
              /\ (t.st = "done" /\ calls[k].pc = "returned" /\ calls[k].text.kind = "str")
                    => calls[k].result.items[1].unit = t.unit

C12_Witness ==
    \E k \in Slots :
        /\ IsTranslate(k) /\ calls[k].pc = "returned" /\ calls[k].text.kind = "str"
        /\ calls[k].tasks[1].deco = "retry"
        /\ calls[k].tasks[1].attempts = <<1, 1, 1>>
        /\ calls[k].result.items[1].kind = "text"

Ended(k) == calls[k].pc \in {"returned", "raised"}
Answered(k) == {i \in 1..Len(calls[k].tasks) : calls[k].tasks[i].st = "done"}
NoUnitFailed(k) == \A i \in 1..Len(calls[k].tasks) : calls[k].tasks[i].st \notin {"failed", "cancelled"}

\* C13: a call on a single string whose backend call returned a collection
\* raises the malformed-response error, not another error, and returns nothing.
C13_CollectionForStringIsMalformed ==
    \A k \in Slots :
        (IsTranslate(k) /\ calls[k].text.kind = "str" /\ Ended(k)
            /\ 1 \in Answered(k) /\ calls[k].tasks[1].resp.shape = "list")
        => calls[k].pc = "raised" /\ calls[k].error = Malformed

\* C14: a call one of whose units was answered by a response without the
\* content-bearing field raises the malformed-response error and returns
\* nothing, serial or async, string or iterable.
C14_MissingFieldIsMalformed ==
    \A k \in Slots :
        (IsTranslate(k) /\ Ended(k) /\ NoUnitFailed(k)
            /\ \E i \in Answered(k) : calls[k].tasks[i].resp.shape = "nofield")
        => calls[k].pc = "raised" /\ calls[k].error = Malformed /\ calls[k].result = NoResult

\* C15: a call that returns gives, in the modes text and json, the text
\* extracted from each response, and in the modes raw and raw_json the
\* response objects themselves.
C15_ModesTextOrRaw ==
    \A k \in Slots :
        (IsTranslate(k) /\ calls[k].pc = "returned")
        => \A i \in 1..Len(calls[k].result.items) :
              calls[k].result.items[i].kind =
                 (IF calls[k].response_type \in {"text", "json"} THEN "text" ELSE "raw")

Outstanding(k) ==
    {i \in 1..Len(calls[k].tasks) : calls[k].tasks[i].st \in {"created", "waiting", "inflight"}}

\* C16: when the caller has cancelled an awaited translate_async call, no
\* unit of that call is left pending, waiting or in flight.
C16_CancelReachesEveryUnit ==
    \A k \in Slots : calls[k].error = CancelledError => Outstanding(k) = {}

\* C17: when translate_async has returned or raised, no unit of the call is
\* pending, waiting or in flight, also when one unit failed while others ran.
C17_EndsAfterEveryUnit ==
    \A k \in Slots :
        (IsTranslate(k) /\ calls[k].api = "translate_async" /\ Ended(k)) => Outstanding(k) = {}

\* C18: a call of which a unit failed raises and hands back no result; a call
\* that returns a result has an answer for every unit.
C18_NoPartialResult ==
    \A k \in Slots :
        (IsTranslate(k) /\ Ended(k))
        => /\ (\E i \in 1..Len(calls[k].tasks) : calls[k].tasks[i].st = "failed")
                 => calls[k].pc = "raised" /\ calls[k].result = NoResult
           /\ calls[k].pc = "returned" => Answered(k) = 1..calls[k].text.n

C18_Witness ==
    \E k \in Slots :
        /\ IsTranslate(k) /\ calls[k].api = "translate_async" /\ calls[k].text.kind = "list"
        /\ calls[k].pc = "raised" /\ calls[k].result = NoResult
        /\ Len(calls[k].tasks) = 2
        /\ calls[k].tasks[1].st = "done" /\ calls[k].tasks[1].resp.shape = "ok"
        /\ calls[k].tasks[2].st = "failed"

\* C19: test_credentials on a recognized backend returns (True, None) when
\* the credentials are valid and (False, e) when they are not; it raises only
\* when the failure e is not of the backend's error family.
C19_TestCredentialsTuple ==
    \A k \in Slots :
        (calls[k].api = "test_credentials" /\ calls[k].service \in Services)
        => /\ calls[k].probes = 1
           /\ credentials = "good" =>
                 /\ calls[k].pc = "returned"
                 /\ calls[k].result = [shape |-> "tuple",
                                       items |-> <<[kind |-> "True", unit |-> 0, shape |-> None]>>]
           /\ credentials # "good" =>
                 \/ /\ calls[k].pc = "returned"
                    /\ calls[k].result = [shape |-> "tuple",
                                          items |-> <<[kind |-> "False", unit |-> 0,
                                                       shape |-> "backend error"]>>]
                 \/ /\ calls[k].pc = "raised"
                    /\ calls[k].error.arg = "other error"
                    /\ calls[k].result = NoResult

C19_Witness ==
    \E k \in Slots :
        /\ calls[k].api = "test_credentials" /\ calls[k].service \in Services
        /\ credentials = "bad" /\ calls[k].pc = "returned"
        /\ calls[k].result.items[1].kind = "False"

\* C20: calculate_cost for a backend metered by tokens estimates over one
\* copy of the instructions per batch element: N copies for an iterable of N
\* strings, one copy for a single string.
C20_InstructionsPerElement ==
    \A k \in Slots :
        (calls[k].api = "calculate_cost" /\ calls[k].service \in LLMServices
            /\ calls[k].pc = "returned" /\ calls[k].text.kind \in {"str", "list"})
        => calls[k].result.items[1].unit = calls[k].text.n

\* C21: a gemini translate_async call that sets the settings and is given no
\* semaphore argument runs its units under a concurrency limit of 5 with a
\* Gemini 1.0 model and of 2 with a Gemini 1.5 model.
C21_GeminiDefaultLimit ==
    \A k \in Slots :
        (IsTranslate(k) /\ calls[k].service = "gemini" /\ calls[k].api = "translate_async"
            /\ calls[k].override /\ ~calls[k].args.semaphore_given)
        => \A i \in 1..Len(calls[k].tasks) :
              calls[k].tasks[i].cap # 0 =>
                 calls[k].tasks[i].cap =
                    (IF calls[k].post.model = "gemini--1.5-pro-latest" THEN 2 ELSE 5)

Dispatched(k) == IsTranslate(k) /\ calls[k].tasks # <<>>
Caps(k) == {calls[k].tasks[i].cap : i \in 1..Len(calls[k].tasks)} \ {0}

Requested(k) == {i \in 1..Len(calls[k].tasks) : calls[k].tasks[i].attempts # <<>>}

\* C23: in a translate call the units are requested in input order, one at a
\* time: unit i+1 is requested only when unit i has its response, so at most
\* one request of the call is in flight.
C23_SerialOneAtATime ==
    \A k \in Slots :
        (IsTranslate(k) /\ calls[k].api = "translate")
        => /\ Cardinality({i \in 1..MaxLen : InFlight(k, i)}) <= 1
           /\ \A i \in Requested(k) : \A j \in 1..(i - 1) :
                 calls[k].tasks[j].st = "done" /\ calls[k].tasks[j].resp.unit = j
           /\ calls[k].pc = "serial" => Cardinality({i \in 1..MaxLen : InFlight(k, i)}) = 1

C23_Witness ==
    \E k \in Slots :
        /\ IsTranslate(k) /\ calls[k].api = "translate" /\ calls[k].text = ListInput(2)
        /\ calls[k].pc = "serial"
        /\ calls[k].tasks[1].st = "done" /\ calls[k].tasks[2].st = "inflight"

Permits(k) == {i \in 1..MaxLen : InFlight(k, i) /\ calls[k].tasks[i].sem # 0}

\* C24: a unit of translate_async has a permit of the semaphore while its
\* request is in flight and gives it back with the response or the failure,
\* so once the call has returned, raised or been cancelled its units hold no
\* permit.
C24_PermitsReturned ==
    \A k \in Slots :
        (IsTranslate(k) /\ calls[k].api = "translate_async")
        => /\ \A i \in 1..MaxLen : InFlight(k, i) => i \in Permits(k)
           /\ Ended(k) => Permits(k) = {}

\* C25: every unit of translate_async that waits for a permit or has its
\* request in flight is guarded by a semaphore whose capacity is the backend's
\* current concurrency limit: the semaphore is rebuilt when the limit changes.
C25_SemaphoreMatchesLimit ==
    \A t \in Tasks :
        (Live(t[1], t[2]) /\ calls[t[1]].api = "translate_async")
        => calls[t[1]].tasks[t[2]].cap = settings.semaphore_value

Retried(k, i) ==
    /\ i <= Len(calls[k].tasks) /\ i <= Len(calls'[k].tasks)
    /\ calls[k].tasks[i].attempts # <<>>
    /\ Len(calls'[k].tasks[i].attempts) > Len(calls[k].tasks[i].attempts)

C28_JsonModeFollowsResponseType ==
    \A k \in Slots :
        (IsTranslate(k) /\ calls[k].service \in LLMServices)
        => \A i \in Sent(k) :
              calls[k].tasks[i].req.json_mode = (calls[k].response_type \in {"json", "raw_json"})

WithoutOverrideOrUnits(k) ==
    \/ /\ calls[k].pc = "idle" /\ calls'[k].pc # "idle"
       /\ calls'[k].api \in TranslateAPIs /\ calls'[k].service \in Services
       /\ ~calls'[k].override
    \/ /\ IsTranslate(k) /\ calls[k].pc \in {"gather", "await", "serial"}
       /\ calls'[k] # calls[k]

\* C30: the shared state of the backend (settings, client and generation
\* config, semaphore) is written only at the start of a call with override:
\* a call without override writes none of it, and no step of the units of a
\* call does.
C30_SharedStateWrittenAtOverrideOnly ==
    [][\A k \in Slots : WithoutOverrideOrUnits(k) => UNCHANGED <<settings, client, semaphore>>]_vars

\* The value the extraction rule chosen by the response first gives for the
\* response r: for a beta message the input of a tool-use block and the text
\* of any other block, for a plain message the text.
RuleOfFirst(first, r) ==
    IF IsBeta(first) /\ r.shape = "beta_tool" THEN "input" ELSE "text"

\* C31: in a batch on anthropic, in the modes text and json, every value
\* returned is extracted by the rule that the shape of the first response
\* selects, in translate and in translate_async.
C31_RuleOfFirstResponse ==
    \A k \in Slots :
        (IsTranslate(k) /\ calls[k].service = "anthropic" /\ calls[k].text.kind = "list"
            /\ calls[k].response_type \in {"text", "json"} /\ calls[k].pc = "returned")
        => \A j \in 1..Len(calls[k].result.items) :
              LET v == calls[k].result.items[j]
              IN v.kind = RuleOfFirst(calls[k].tasks[1].resp, calls[k].tasks[v.unit].resp)

\* The instructions in effect for the call in slot k: with override those of
\* the caller, or the default ones; without, the stored ones.
EffectiveInstructions(k) ==
    IF calls[k].override
    THEN IF calls[k].args.translation_instructions # None
         THEN calls[k].args.translation_instructions
         ELSE _default_translation_instructions
    ELSE calls[k].pre.system_message

\* C32: every unit of a call to an LLM backend is sent as a pair of the
\* instructions and the unit: the instructions in effect for the call, the
\* same for every unit of the batch.
C32_InstructionsWithEveryUnit ==
    \A k \in Slots :
        (IsTranslate(k) /\ calls[k].service \in LLMServices)
        => \A i \in Sent(k) :
              /\ calls[k].tasks[i].req.unit = i
              /\ calls[k].tasks[i].req.instructions = EffectiveInstructions(k)
              /\ calls[k].tasks[i].req.instructions # None

C32_Witness ==
    \E k \in Slots :
        /\ IsTranslate(k) /\ calls[k].service = "openai" /\ calls[k].text = ListInput(2)
        /\ calls[k].override /\ calls[k].args = TunedArgs
        /\ Sent(k) = {1, 2}
        /\ calls[k].tasks[2].req.instructions = "Translate into French."
        /\ calls[k].pre.system_message = _default_translation_instructions

\* C33: in every reachable state the concurrency limit of the backend is at
\* least 1 and its inter-request delay is absent or not negative, whatever
\* the callers pass.
C33_LimitAndDelayInRange ==
    /\ settings.semaphore_value >= 1
    /\ semaphore.cap >= 1
    /\ settings.rate_limit_delay # "-1.0"

\* Overlapping translate_async calls on gemini with limits of 1 and 2, under the scheduling of asyncio: a task that can run is run, a permit that
\* is free goes to a unit waiting for it, and every request in flight is
\* answered or fails.
InitLive == Init /\ service = "gemini"

NextLive ==
    \/ \E k \in Slots : Ready(k) /\ set_credentials(k, service, TRUE)
    \/ \E k \in Slots : Ready(k) /\
          \E a \in {TunedArgs, PairArgs} :
             Translate(k, "translate_async", service, ListInput(MaxLen), "text", TRUE, a, FALSE)
    \/ \E k \in Slots : StartTasks(k)
    \/ \E k \in Slots, i \in 1..MaxLen : Acquire(k, i)
    \/ \E k \in Slots, i \in 1..MaxLen, out \in {"ok", "fail"} : Respond(k, i, out)
    \/ \E k \in Slots : Finish(k)
    \/ \E k \in Slots : Collect(k)

Fairness ==
    \A k \in Slots :
        /\ WF_vars(StartTasks(k))
        /\ WF_vars(Finish(k))
        /\ \A i \in 1..MaxLen :
              /\ WF_vars(Acquire(k, i))
              /\ WF_vars(\E out \in {"ok", "fail"} : Respond(k, i, out))

SpecLive == InitLive /\ [][NextLive]_vars /\ Fairness

Waiting(k, i) == i <= Len(calls[k].tasks) /\ calls[k].tasks[i].st \in {"created", "waiting"}

\* C34: with a limit of at least 1 and every request answered or failing,
\* every unit of a translate_async call gets its permit in the end, and the
\* call returns or raises in the end.
C34_BatchEnds ==
    \A k \in Slots :
        /\ (calls[k].pc \in {"gather", "await"}) ~> (calls[k].pc \in {"returned", "raised"})
        /\ \A i \in 1..MaxLen : Waiting(k, i) ~> ~Waiting(k, i)

C34_Witness ==
    \E k \in Slots :
        /\ calls[k].pc = "await" /\ Len(calls[k].tasks) = 2
        /\ calls[k].tasks[1].st = "inflight" /\ calls[k].tasks[1].cap = 1
        /\ calls[k].tasks[2].st = "waiting"
        /\ Len(calls[k].tasks[1].attempts) = 2

\* What the call in slot k would have given for the single string x, had it
\* got the response its unit 1 got.
AsString(k) ==
    Normalise(calls[k].service, calls[k].api = "translate_async", StrInput,
              calls[k].response_type, <<calls[k].tasks[1].resp>>)

\* C35: a call on the one-element list [x] whose unit got a regular response
\* returns a list of one element, the value that the call on the string x
\* returns for the same response, for every backend and response type.
C35_SingletonListAsString ==
    \A k \in Slots :
        (IsTranslate(k) /\ Ended(k) /\ calls[k].error # CancelledError
            /\ calls[k].text = ListInput(1)
            /\ Answered(k) = {1} /\ calls[k].tasks[1].resp.shape = "ok")
        => /\ calls[k].pc = "returned"
           /\ calls[k].result.shape = "list"
           /\ AsString(k).error = NoError
           /\ calls[k].result.items = AsString(k).result.items

\* What the function of the other mode makes of the responses the units of
\* the call in slot k got.
InOtherMode(k) ==
    Normalise(calls[k].service, calls[k].api # "translate_async", calls[k].text,
              calls[k].response_type, Responses(calls[k]))

\* C36: translate and translate_async give the same outcome for the same
\* input, settings and responses of the units: the same value returned, or an
\* error of the same class.
C36_SerialAndAsyncAgree ==
    \A k \in Slots :
        (IsTranslate(k) /\ Ended(k) /\ calls[k].error # CancelledError
            /\ calls[k].tasks # <<>> /\ Answered(k) = 1..Len(calls[k].tasks))
        => IF calls[k].pc = "returned"
           THEN InOtherMode(k).error = NoError /\ InOtherMode(k).result = calls[k].result
           ELSE InOtherMode(k).error.raised = calls[k].error.raised

\* C37: the units of one translate_async batch are all sent with the same
\* settings, those in effect when the batch began to be dispatched: any two
\* units that have been sent carry the same model, instructions and JSON
\* mode, whatever another call has written to the class attributes while the
\* batch was under way.
C37_BatchSentWithOneSetting ==
    \A k \in Slots :
        (IsTranslate(k) /\ calls[k].api = "translate_async")
        => \A i, j \in Requested(k) :
              /\ calls[k].tasks[i].req.model = calls[k].tasks[j].req.model
              /\ calls[k].tasks[i].req.instructions = calls[k].tasks[j].req.instructions
              /\ calls[k].tasks[i].req.json_mode = calls[k].tasks[j].req.json_mode

\* The call in slot k was rejected for its backend, its response type or
\* its text.
Rejected(k) ==
    /\ calls[k].api \in TranslateAPIs /\ calls[k].pc = "raised"
    /\ \/ calls[k].error \in {InvalidAPIType, InvalidResponseFormat}
       \/ calls[k].service \in Services /\ calls[k].error = InvalidTextInput(calls[k].service)

\* C38: a translate / translate_async call rejected for an unknown backend,
\* an unsupported response type or an invalid text leaves the settings of the
\* backend as they were before the call, with override_previous_settings too.
C38_RejectedCallKeepsSettings ==
    \A k \in Slots : Rejected(k) => calls[k].post = calls[k].pre

\* C39: in anthropic_translate the value appended for a unit is computed
\* from the response of that unit: item j of the list returned comes from
\* response j, and no value of an earlier unit stands in a later place.
C39_ValueOfOwnResponse ==
    \A k \in Slots :
        (IsTranslate(k) /\ calls[k].service = "anthropic" /\ calls[k].api = "translate"
            /\ calls[k].pc = "returned")
        => \A j \in 1..Len(calls[k].result.items) :
              /\ calls[k].result.items[j].unit = j
              /\ calls[k].result.items[j].shape = calls[k].tasks[j].resp.shape
====
